---------------------------- MODULE Spec2Model ----------------------------
(***************************************************************************)
(* Model of the ETL orchestration engine of poc-juma-etl.                  *)
(*                                                                         *)
(*   Spec       the Service Runner: process_table / run_etl_service        *)
(*              (src/main.py, src/utils.py) stepping through its calls of  *)
(*              get_auth_token, delete_bigquery_range,                     *)
(*              extract_service_data and load_to_bigquery.                 *)
(*   SpecSched  the Job Scheduler: run_parallel_etl (src/main.py) over a   *)
(*              ProcessPoolExecutor and as_completed.                      *)
(*                                                                         *)
(* Dates are day numbers (an integer per calendar day); a record is the    *)
(* day number held by its filter field; a warehouse table is a bag of      *)
(* records (day -> number of rows).                                        *)
(***************************************************************************)
EXTENDS Integers, Sequences, FiniteSets, TLC

\* ------------------------------------------------------------------------
\* Bounds of the model
\* ------------------------------------------------------------------------
MaxDay == 4
\* records per page returned by the source API
PageSize == 2
\* runs of the Service Runner in one behaviour
MaxRuns == 2
\* the scheduler runs the tables FirstTable .. FirstTable + NumTables - 1 of SERVICE_MAP
FirstTable == 4
NumTables == 4
\* the worker bound W ranges over 1..MaxWorkers
MaxWorkers == 2
\* iterations the partitioner loops are followed for
MaxIter == 6
\* calls of get_auth_token in a row, and the last minute of the clock
MaxCalls == 3
MaxClock == 12
\* days in each window of dates handed to the Range Partitioner, and the largest batch
WindowDays == 7
MaxBatch == 3
\* the longest span, in days, handed to the day-by-day policies
MaxSpanDays == 70
\* pages a scripted service answers
MaxPages == 3
\* rows and columns of a batch handed to the loader's normalization
MaxRows == 1
MaxColumns == 2
\* rows a gold view can hold
MaxViewRows == 2

\* ------------------------------------------------------------------------
\* Program constants (src/config.py, src/utils.py)
\* ------------------------------------------------------------------------
TOKEN_LIFESPAN_MINUTES == 10
DAYS_FOR_RECENT_REFRESH == 10
\* START_DATE_HISTORICAL = END_DATE_HISTORICAL = datetime(2050, 1, 1): day number 1
EpochYear == 2050
START_DATE_HISTORICAL == 1
END_DATE_HISTORICAL == 1

DayDomain == 1..MaxDay
\* datetime.now().date() of the run
Today == MaxDay

Min(a, b) == IF a <= b THEN a ELSE b

\* the keys of SERVICE_MAP in the order the dict holds them
SERVICE_KEYS ==
  << "CAD_LOJAS", "CAD_PESSOAS", "CAD_PRODUTOS", "PRODUTOS_SALDO_ESTOQUE_EMPRESA",
     "DOCUMENTOS_FISCAIS_ENTRADA", "DOCUMENTOS_FISCAIS_SAIDA",
     "ITENS_DOCUMENTOS_FISCAIS_ENTRADA", "ITENS_DOCUMENTOS_FISCAIS_SAIDA",
     "RECEBIMENTOS_DOCUMENTOS_FISCAIS_SAIDA", "PAGAMENTOS_DOCUMENTOS_FISCAIS_ENTRADA" >>

Cadastral(api) == [api_name |-> api, filter_field |-> "", load_mode |-> "WRITE_TRUNCATE"]
Transactional(api) ==
  [api_name |-> api, filter_field |-> "dtmovimento", load_mode |-> "WRITE_APPEND"]

\* SERVICE_MAP (filter_field "" stands for None)
SERVICE_MAP ==
  [ CAD_LOJAS |-> Cadastral("cad_lojas"),
    CAD_PESSOAS |-> Cadastral("cad_pessoas"),
    CAD_PRODUTOS |-> Cadastral("cad_produtos"),
    PRODUTOS_SALDO_ESTOQUE_EMPRESA |-> Cadastral("produtos_saldo_estoque_empresa"),
    DOCUMENTOS_FISCAIS_ENTRADA |-> Transactional("documentos_fiscais_entrada"),
    DOCUMENTOS_FISCAIS_SAIDA |-> Transactional("documentos_fiscais_saida"),
    ITENS_DOCUMENTOS_FISCAIS_ENTRADA |-> Transactional("itens_documentos_fiscais_entrada"),
    ITENS_DOCUMENTOS_FISCAIS_SAIDA |-> Transactional("itens_documentos_fiscais_saida"),
    RECEBIMENTOS_DOCUMENTOS_FISCAIS_SAIDA |->
      Transactional("recebimentos_documentos_fiscais_saida"),
    PAGAMENTOS_DOCUMENTOS_FISCAIS_ENTRADA |->
      Transactional("pagamentos_documentos_fiscais_entrada") ]

\* the tables the Service Runner is run for: one cadastral, one transactional
RunnerTables == {"CAD_LOJAS", "DOCUMENTOS_FISCAIS_SAIDA"}

\* config.get("range_type"): no entry of SERVICE_MAP has the key, so None ("")
RangeTypeOf(config) ==
  IF "range_type" \in DOMAIN config THEN config["range_type"] ELSE ""

\* ------------------------------------------------------------------------
\* Calendar: day number <-> (year, month, day); day 1 is EpochYear-01-01
\* ------------------------------------------------------------------------
IsLeap(y) == (y % 4 = 0 /\ y % 100 # 0) \/ y % 400 = 0

YearLen(y) == IF IsLeap(y) THEN 366 ELSE 365

DaysInMonth(y, m) ==
  IF m = 2 THEN (IF IsLeap(y) THEN 29 ELSE 28)
  ELSE IF m \in {4, 6, 9, 11} THEN 30 ELSE 31

RECURSIVE YearStart(_)
YearStart(y) ==
  IF y = EpochYear THEN 1
  ELSE IF y > EpochYear THEN YearStart(y - 1) + YearLen(y - 1)
  ELSE YearStart(y + 1) - YearLen(y)

RECURSIVE MonthStart(_, _)
MonthStart(y, m) == IF m = 1 THEN YearStart(y) ELSE MonthStart(y, m - 1) + DaysInMonth(y, m - 1)

\* datetime(y, m, d)
DayNumber(y, m, d) == MonthStart(y, m) + (d - 1)

RECURSIVE YearFrom(_, _)
YearFrom(n, y) ==
  IF n < YearStart(y) THEN YearFrom(n, y - 1)
  ELSE IF n >= YearStart(y + 1) THEN YearFrom(n, y + 1)
  ELSE y

YearOf(n) == YearFrom(n, EpochYear)

RECURSIVE MonthFrom(_, _, _)
MonthFrom(n, y, m) ==
  IF m < 12 /\ n >= MonthStart(y, m + 1) THEN MonthFrom(n, y, m + 1) ELSE m

MonthOf(n) == MonthFrom(n, YearOf(n), 1)

\* ------------------------------------------------------------------------
\* Range Partitioner (src/config.py)
\* ------------------------------------------------------------------------
\* a month taken as thirty days
NextMonthThirtyDaysOn(current) == current + 30

\* lines 92-95: the first day of the month after current's
NextMonth(current) ==
  IF MonthOf(current) = 12
    THEN DayNumber(YearOf(current) + 1, 1, 1)
    ELSE DayNumber(YearOf(current), MonthOf(current) + 1, 1)

RECURSIVE MonthlyLoop(_, _, _)
MonthlyLoop(current, end_date, ranges) ==
  IF current <= end_date
    THEN LET next_month == NextMonth(current)
             last_day_of_month == next_month - 1
             batch_end == Min(last_day_of_month, end_date)
         IN  MonthlyLoop(next_month, end_date, Append(ranges, <<current, batch_end>>))
    ELSE ranges

get_monthly_ranges(start_date, end_date) == MonthlyLoop(start_date, end_date, <<>>)

RECURSIVE DailyLoop(_, _, _)
DailyLoop(current_day, end_date, ranges) ==
  IF current_day <= end_date
    THEN DailyLoop(current_day + 1, end_date, Append(ranges, <<current_day, current_day>>))
    ELSE ranges

\* a partitioner that always returns a range
get_daily_ranges_never_empty(start_date, end_date) ==
  IF start_date <= end_date THEN DailyLoop(start_date, end_date, <<>>)
  ELSE << <<start_date, end_date>> >>

get_daily_ranges(start_date, end_date) == DailyLoop(start_date, end_date, <<>>)

\* a batch end counted from the day after the start
CalculatedEndOneMore(current_start, days_in_batch) == current_start + days_in_batch

\* line 129: current_start + timedelta(days=days_in_batch - 1)
CalculatedEnd(current_start, days_in_batch) == current_start + (days_in_batch - 1)

\* a batch end that is not clipped at end_date
BatchEndUnclipped(calculated_end, end_date) == calculated_end

\* line 130: min(calculated_end, end_date)
BatchEnd(calculated_end, end_date) == Min(calculated_end, end_date)

RECURSIVE CustomLoop(_, _, _, _, _)
CustomLoop(current_start, end_date, days_in_batch, ranges, fuel) ==
  IF current_start <= end_date /\ fuel > 0
    THEN LET calculated_end == CalculatedEnd(current_start, days_in_batch)
             batch_end == BatchEnd(calculated_end, end_date)
         IN  CustomLoop(batch_end + 1, end_date, days_in_batch,
                        Append(ranges, <<current_start, batch_end>>), fuel - 1)
    ELSE ranges

\* with days_in_batch >= 1 the loop ends within end_date - start_date + 1 rounds;
\* with days_in_batch = 0 the start stays where it is and with days_in_batch < 0 it
\* walks backwards: the loop does not end by its guard and is cut after MaxIter rounds
get_custom_day_ranges(start_date, end_date, days_in_batch) ==
  CustomLoop(start_date, end_date, days_in_batch, <<>>,
             IF days_in_batch >= 1 THEN end_date - start_date + 1 ELSE MaxIter)

\* ------------------------------------------------------------------------
\* Warehouse tables as bags of records
\* ------------------------------------------------------------------------
EmptyTable == [d \in DayDomain |-> 0]

BagOf(recs) == [d \in DayDomain |-> Cardinality({k \in DOMAIN recs : recs[k] = d})]

RowsIn(tbl, s, e) == [d \in DayDomain |-> IF s <= d /\ d <= e THEN tbl[d] ELSE 0]

RECURSIVE SumTo(_, _)
SumTo(tbl, d) == IF d = 0 THEN 0 ELSE tbl[d] + SumTo(tbl, d - 1)

RowCount(tbl) == SumTo(tbl, MaxDay)

\* (mutant) DELETE FROM t without the date predicate
DeleteRowsOfAllDates(tbl, s, e) == [d \in DayDomain |-> 0]

\* DELETE FROM t WHERE DATE(field) BETWEEN s AND e
DeleteRows(tbl, s, e) == [d \in DayDomain |-> IF s <= d /\ d <= e THEN 0 ELSE tbl[d]]

AppendRows(tbl, recs) == [d \in DayDomain |-> tbl[d] + BagOf(recs)[d]]

\* ------------------------------------------------------------------------
\* Token Cache (src/utils.py): a token is a positive number, None is 0
\* ------------------------------------------------------------------------
None == 0

AuthResponses == {"ok", "request_error", "no_access_token"}

\* a cache that still hands out its token at the minute it expires
get_auth_token_valid_at_expiry(cache, clock, resp, fresh) ==
  IF cache.access_token # None /\ clock <= cache.expires_at
    THEN [token |-> cache.access_token, cache |-> cache, requested |-> FALSE]
  ELSE IF resp = "ok"
    THEN [token |-> fresh,
          cache |-> [access_token |-> fresh,
                     expires_at |-> clock + TOKEN_LIFESPAN_MINUTES],
          requested |-> TRUE]
  ELSE [token |-> None, cache |-> cache, requested |-> TRUE]

\* a failed request that empties the cache
get_auth_token_clearing_on_failure(cache, clock, resp, fresh) ==
  IF cache.access_token # None /\ clock < cache.expires_at
    THEN [token |-> cache.access_token, cache |-> cache, requested |-> FALSE]
  ELSE IF resp = "ok"
    THEN [token |-> fresh,
          cache |-> [access_token |-> fresh,
                     expires_at |-> clock + TOKEN_LIFESPAN_MINUTES],
          requested |-> TRUE]
  ELSE [token |-> None, cache |-> [access_token |-> None, expires_at |-> 0],
        requested |-> TRUE]

\* get_auth_token with the clock at now, the endpoint answering resp and handing
\* out token fresh: the value returned, the cache afterwards, whether a request
\* was issued
get_auth_token(cache, clock, resp, fresh) ==
  IF cache.access_token # None /\ clock < cache.expires_at
    THEN [token |-> cache.access_token, cache |-> cache, requested |-> FALSE]
  ELSE IF resp = "ok"
    THEN [token |-> fresh,
          cache |-> [access_token |-> fresh,
                     expires_at |-> clock + TOKEN_LIFESPAN_MINUTES],
          requested |-> TRUE]
  ELSE [token |-> None, cache |-> cache, requested |-> TRUE]

\* ------------------------------------------------------------------------
\* Paged Extractor (src/utils.py)
\* ------------------------------------------------------------------------
\* a window is <<start_date, end_date>>, or <<>> when the dates are None
NoWindow == <<>>

\* the clause sent: a BETWEEN filter only when field, start and end are all given
FilterApplied(date_filter_field, window) ==
  date_filter_field # "" /\ window # NoWindow

\* the records of the service that the request's clauses select
Selected(data, date_filter_field, window) ==
  IF FilterApplied(date_filter_field, window)
    THEN SelectSeq(data, LAMBDA r : window[1] <= r /\ r <= window[2])
    ELSE data

\* the response of the service to the request for one page; the request for
\* page fail_at fails (0: none fails)
ServerPage(sel, fail_at, page) ==
  IF page = fail_at
    THEN [status |-> "error", registros |-> <<>>, hasNext |-> FALSE]
    ELSE [status |-> "ok",
          registros |-> SubSeq(sel, (page - 1) * PageSize + 1, Min(page * PageSize, Len(sel))),
          hasNext |-> page * PageSize < Len(sel)]

\* a result that keeps the last page only
AccumulateLatest(all_records, page_records) == page_records

\* line 180: all_records.extend(records)
Accumulate(all_records, page_records) == all_records \o page_records

\* a failure that throws away what was gathered
OnRequestErrorDiscard(all_records) == <<>>

\* lines 184-189: the except branch breaks, and all_records is returned as it is
OnRequestError(all_records) == all_records

\* the while loop of extract_service_data (lines 161-189) from page on, the service
\* answering the request for page p with responses[p]: the records returned and
\* the pages requested, in order
RECURSIVE PageLoop(_, _, _, _)
PageLoop(responses, page, all_records, requested) ==
  LET data == responses[page]
      asked == Append(requested, page)
  IN  IF data.status = "error"
        THEN [records |-> OnRequestError(all_records), requested |-> asked]
      ELSE IF data.registros = <<>>
        THEN [records |-> all_records, requested |-> asked]
      ELSE IF data.hasNext
        THEN PageLoop(responses, page + 1, Accumulate(all_records, data.registros), asked)
        ELSE [records |-> Accumulate(all_records, data.registros), requested |-> asked]

\* the loop against the service that holds sel
ExtractLoop(sel, fail_at, page, all_records) ==
  PageLoop([p \in 1..(Len(sel) + 1) |-> ServerPage(sel, fail_at, p)],
           page, all_records, <<>>).records

extract_service_data(data, fail_at, date_filter_field, window) ==
  ExtractLoop(Selected(data, date_filter_field, window), fail_at, 1, <<>>)

\* pages requested when no request fails
PagesOf(sel) == IF Len(sel) = 0 THEN 1 ELSE (Len(sel) + PageSize - 1) \div PageSize

\* ------------------------------------------------------------------------
\* Warehouse Loader (src/utils.py)
\* ------------------------------------------------------------------------
BqOutcomes == {"ok", "error"}

\* delete_bigquery_range: the table afterwards; without a client, or when the
\* query fails, the table is as before
delete_bigquery_range(tbl, client, outcome, start_date, end_date) ==
  IF ~client THEN tbl
  ELSE IF outcome = "ok" THEN DeleteRows(tbl, start_date, end_date)
  ELSE tbl

\* delete_bigquery_range raises when filter_field is None and a client exists
\* (filter_field.lower() in the log line ahead of the query)
DeleteRaises(client, filter_field) == client /\ filter_field = ""

\* a loader that hands an empty batch to the warehouse as well
load_to_bigquery_without_empty_check(tbl, client, outcome, df, load_mode) ==
  IF ~client THEN tbl
  ELSE IF outcome # "ok" THEN tbl
  ELSE IF load_mode = "WRITE_TRUNCATE" THEN BagOf(df)
  ELSE AppendRows(tbl, df)

\* load_to_bigquery: the table afterwards
load_to_bigquery(tbl, client, outcome, df, load_mode) ==
  IF df = <<>> THEN tbl
  ELSE IF ~client THEN tbl
  ELSE IF outcome # "ok" THEN tbl
  ELSE IF load_mode = "WRITE_TRUNCATE" THEN BagOf(df)
  ELSE AppendRows(tbl, df)

\* whether load_to_bigquery issues a load job
LoadIssued(client, df) == df # <<>> /\ client

\* ------------------------------------------------------------------------
\* State of the Service Runner
\* ------------------------------------------------------------------------
VARIABLES
  caller,             \* "process_table" (the scheduler's job) or "run_etl_service"
  table_name,         \* the table of the run
  historical_ranges,  \* [none |-> TRUE] for None, else [none |-> FALSE, ranges |-> plan]
  days_refresh,       \* DAYS_FOR_RECENT_REFRESH of the configuration
  source,             \* the records the source API holds for the table's service
  client_ok,          \* whether get_bigquery_client returns a client
  wh,                 \* the warehouse: table -> bag of rows
  TOKEN_CACHE,        \* [access_token, expires_at]
  now,                \* the clock, in minutes
  auth_requests,      \* authentication requests issued so far
  pc,                 \* where run_etl_service stands
  i,                  \* index of the range being processed (0 outside the loop)
  token,              \* the token of the current step
  records,            \* the records of the last extraction
  exc,                \* the exception raised by run_etl_service ("" when none)
  refresh_window,     \* (start_date_refresh, end_date_refresh) once computed
  result,             \* what process_table returned: <<table, success, message>>
  runs,               \* runs started so far
  run_limit,          \* runs the behaviour may start
  ops                 \* every call run_etl_service made, in order

runnerVars == <<caller, table_name, historical_ranges, days_refresh, source, client_ok, wh,
                TOKEN_CACHE, now, auth_requests, pc, i, token, records, exc, refresh_window,
                result, runs, run_limit, ops>>

\* State of the Job Scheduler (run_parallel_etl)
VARIABLES
  workers,         \* the worker bound W
  silver_status,   \* table -> pending | running | success | error
  gold_status,     \* derived table -> pending | running | success | error
  job,             \* table -> unsubmitted | queued | executing | finished (the pool's view)
  job_result,      \* table -> the tuple process_table returned (finished jobs)
  next_submit,     \* index of the next table the submit loop submits
  pending_queue,   \* tables waiting to be marked running
  waiting,         \* whether as_completed has installed its waiter
  ready_set,       \* futures found finished when as_completed was called, not yet yielded
  ready_queue,     \* futures finished since, in completion order, not yet yielded
  handled,         \* futures as_completed has yielded
  mpc,             \* where the main thread stands
  cur,             \* the result being handled
  mat_calls        \* view -> calls of materialize_specific_table

schedVars == <<workers, silver_status, gold_status, job, job_result, next_submit,
               pending_queue, waiting, ready_set, ready_queue, handled, mpc, cur, mat_calls>>

vars == <<runnerVars, schedVars>>

NoRanges == [none |-> TRUE, ranges |-> <<>>]
Ranges(plan) == [none |-> FALSE, ranges |-> plan]

\* process_table lines 36-47: the plan by the entry's range_type
HistoricalRangesFor(name) ==
  LET range_type == RangeTypeOf(SERVICE_MAP[name])
  IN  IF range_type = "monthly"
        THEN Ranges(get_monthly_ranges(START_DATE_HISTORICAL, END_DATE_HISTORICAL))
      ELSE IF range_type = "daily"
        THEN Ranges(get_daily_ranges(START_DATE_HISTORICAL, END_DATE_HISTORICAL))
      ELSE NoRanges

\* inputs of the model
PlanChoices ==
  { NoRanges,
    Ranges(get_daily_ranges(2, 1)),
    Ranges(get_daily_ranges(2, 3)),
    Ranges(get_custom_day_ranges(1, MaxDay, 2)) }

RefreshChoices == {0, 1, DAYS_FOR_RECENT_REFRESH}

SourceChoices == { <<1, 1, 3, 4>> }

TableChoices == { EmptyTable, BagOf(<<1, 2, 4>>) }

NoResult == <<"", FALSE, "">>

\* an entry of ops: the call, its phase, range index and window, how it ended, the
\* records it returned or loaded, the write disposition, the target table afterwards
Op(op, phase, idx, window, info, recs, mode, after) ==
  [run |-> runs, op |-> op, phase |-> phase, i |-> idx, range |-> window,
   info |-> info, recs |-> recs, mode |-> mode, tbl |-> after]

config == SERVICE_MAP[table_name]
filter_field == config.filter_field
load_mode == config.load_mode

\* the range the loop is at: (start_date, end_date)
CurrentRange == historical_ranges.ranges[i]

\* lines 394-395 read the clock twice: datetime.now().date() for the start and again
\* for the end. The second read falls on Today; the first falls on the same day or,
\* when midnight passes between the two reads, on the day before.
DateReads == { <<Today, Today>>, <<Today - 1, Today>> }

\* the window of RECENT_REFRESH: (start_date_refresh, end_date_refresh), from the
\* day of the first read and the day of the second
RefreshWindow(first_read, second_read) ==
  <<first_read - (days_refresh - 1), second_read>>

RunnerInit ==
  /\ caller \in {"process_table", "run_etl_service"}
  /\ table_name \in RunnerTables
  /\ historical_ranges \in
       IF caller = "process_table" THEN {HistoricalRangesFor(table_name)} ELSE PlanChoices
  /\ days_refresh \in RefreshChoices
  /\ source \in SourceChoices
  /\ client_ok \in BOOLEAN
  /\ \E tbl \in TableChoices :
       wh = [n \in RunnerTables |-> IF n = table_name THEN tbl ELSE BagOf(<<2>>)]
  /\ TOKEN_CACHE = [access_token |-> None, expires_at |-> 0]
  /\ now = 1
  /\ auth_requests = 0
  /\ pc = "idle"
  /\ i = 0
  /\ token = None
  /\ records = <<>>
  /\ exc = ""
  /\ refresh_window = NoWindow
  /\ result = NoResult
  /\ runs = 0
  /\ run_limit = 1
  /\ ops = <<>>

fixedVars == <<caller, table_name, historical_ranges, days_refresh, source, client_ok,
               run_limit>>

\* run_etl_service is entered (lines 279-326): None selects FULL_LOAD; a plan is
\* indexed at [0] for the phase's log line before the loop starts
StartRun ==
  /\ pc \in {"idle", "returned"} \/ (caller = "run_etl_service" /\ pc \in {"done", "raised"})
  /\ runs < run_limit
  /\ runs' = runs + 1
  /\ result' = NoResult
  /\ token' = None
  /\ records' = <<>>
  /\ IF historical_ranges.none
       THEN pc' = "full_token" /\ i' = 0 /\ exc' = ""
     ELSE IF Len(historical_ranges.ranges) = 0
       THEN pc' = "raised" /\ i' = 0 /\ exc' = "IndexError"
     ELSE pc' = "hist_token" /\ i' = 1 /\ exc' = ""
  /\ refresh_window' = NoWindow
  /\ UNCHANGED <<fixedVars, wh, TOKEN_CACHE, now, auth_requests, ops>>
  /\ UNCHANGED schedVars

\* a call of get_auth_token in phase at range idx: on None go to on_none
AcquireToken(phase, idx, window, on_some, on_none, i_none) ==
  \E resp \in AuthResponses :
    LET r == get_auth_token(TOKEN_CACHE, now, resp, auth_requests + 1)
    IN  /\ token' = r.token
        /\ TOKEN_CACHE' = r.cache
        /\ auth_requests' = IF r.requested THEN auth_requests + 1 ELSE auth_requests
        /\ ops' = Append(ops, Op("token", phase, idx, window,
                                 IF ~r.requested THEN "cached"
                                 ELSE IF r.token # None THEN "new" ELSE "none",
                                 <<>>, "", wh[table_name]))
        /\ IF r.token # None
             THEN pc' = on_some /\ i' = i
             ELSE pc' = on_none /\ i' = i_none

\* a call of extract_service_data; the clock moves on while it runs
Extract(phase, idx, field, window, next_pc) ==
  LET sel == Selected(source, field, window)
  IN  \E fail_at \in 0..PagesOf(sel), dt \in {0, TOKEN_LIFESPAN_MINUTES} :
        LET recs == extract_service_data(source, fail_at, field, window)
        IN  /\ records' = recs
            /\ now' = now + dt
            /\ ops' = Append(ops, Op("extract", phase, idx,
                                     IF FilterApplied(field, window) THEN window ELSE NoWindow,
                                     IF fail_at = 0 THEN "complete" ELSE "failed", recs, "",
                                     wh[table_name]))
            /\ pc' = next_pc

\* a call of load_to_bigquery
Load(phase, idx, window, df, mode, next_pc, next_i) ==
  \E outcome \in BqOutcomes :
    /\ wh' = [wh EXCEPT ![table_name] = load_to_bigquery(@, client_ok, outcome, df, mode)]
    /\ ops' = Append(ops, Op("load", phase, idx, window,
                             IF ~LoadIssued(client_ok, df) THEN "noop" ELSE outcome, df, mode,
                             wh'[table_name]))
    /\ pc' = next_pc
    /\ i' = next_i

\* a call of delete_bigquery_range
Delete(phase, idx, window, next_pc) ==
  \E outcome \in BqOutcomes :
    /\ IF DeleteRaises(client_ok, filter_field)
         THEN pc' = "raised" /\ exc' = "AttributeError" /\ wh' = wh
         ELSE /\ pc' = next_pc
              /\ exc' = exc
              /\ wh' = [wh EXCEPT ![table_name] =
                          delete_bigquery_range(@, client_ok, outcome, window[1], window[2])]
    /\ ops' = Append(ops, Op("delete", phase, idx, window,
                             IF ~client_ok THEN "noclient"
                             ELSE IF DeleteRaises(client_ok, filter_field) THEN "raised"
                             ELSE outcome, <<>>, "", wh'[table_name]))

\* ---- A. FULL_LOAD (lines 294-314)
FullToken ==
  /\ pc = "full_token"
  /\ AcquireToken("FULL_LOAD", 0, NoWindow, "full_extract", "done", 0)
  /\ UNCHANGED <<fixedVars, refresh_window, wh, now, records, exc, result, runs>>
  /\ UNCHANGED schedVars

FullExtract ==
  /\ pc = "full_extract"
  /\ Extract("FULL_LOAD", 0, "", NoWindow, "full_load")
  /\ UNCHANGED <<fixedVars, refresh_window, wh, TOKEN_CACHE, auth_requests, i, token, exc, result, runs>>
  /\ UNCHANGED schedVars

FullLoad ==
  /\ pc = "full_load"
  /\ Load("FULL_LOAD", 0, NoWindow, records, load_mode, "done", 0)
  /\ UNCHANGED <<fixedVars, refresh_window, TOKEN_CACHE, now, auth_requests, token, records, exc, result, runs>>
  /\ UNCHANGED schedVars

\* ---- B. FASE 1: HISTORICAL_BACKFILL, one range after the other (lines 331-377)
\* the position after range i: the next range, or FASE 2
AfterRange == IF i < Len(historical_ranges.ranges) THEN "hist_token" ELSE "refresh_token"
NextIndex == IF i < Len(historical_ranges.ranges) THEN i + 1 ELSE 0

\* (mutant) without a token the run is given up
OnTokenNoneAbort == "done"

\* line 342: without a token the range is left with continue
OnTokenNone == AfterRange

HistToken ==
  /\ pc = "hist_token"
  /\ AcquireToken("HISTORICAL_BACKFILL", i, CurrentRange, "hist_delete", OnTokenNone, NextIndex)
  /\ UNCHANGED <<fixedVars, refresh_window, wh, now, records, exc, result, runs>>
  /\ UNCHANGED schedVars

HistDelete ==
  /\ pc = "hist_delete"
  /\ IF filter_field # ""
       THEN Delete("HISTORICAL_BACKFILL", i, CurrentRange, "hist_extract")
       ELSE pc' = "hist_extract" /\ UNCHANGED <<wh, ops, exc>>
  /\ UNCHANGED <<fixedVars, refresh_window, TOKEN_CACHE, now, auth_requests, i, token, records, result, runs>>
  /\ UNCHANGED schedVars

HistExtract ==
  /\ pc = "hist_extract"
  /\ Extract("HISTORICAL_BACKFILL", i, filter_field, CurrentRange, "hist_load")
  /\ UNCHANGED <<fixedVars, refresh_window, wh, TOKEN_CACHE, auth_requests, i, token, exc, result, runs>>
  /\ UNCHANGED schedVars

\* (mutant) the load is called whatever was extracted
HasRecordsAlways(recs) == TRUE

\* line 364: if records
HasRecords(recs) == recs # <<>>

\* (mutant) the batch is loaded with the load mode of the configuration
batch_load_mode_of_config == load_mode

\* line 369: the load mode of a batch
batch_load_mode == "WRITE_APPEND"

HistLoad ==
  /\ pc = "hist_load"
  /\ IF HasRecords(records)
       THEN Load("HISTORICAL_BACKFILL", i, CurrentRange, records, batch_load_mode,
                 AfterRange, NextIndex)
       ELSE pc' = AfterRange /\ i' = NextIndex /\ UNCHANGED <<wh, ops>>
  /\ UNCHANGED <<fixedVars, refresh_window, TOKEN_CACHE, now, auth_requests, token, records, exc, result, runs>>
  /\ UNCHANGED schedVars

\* ---- FASE 2: RECENT_REFRESH (lines 387-424)
RefreshToken ==
  /\ pc = "refresh_token"
  /\ IF days_refresh <= 0
       THEN /\ pc' = "done"
            /\ UNCHANGED <<TOKEN_CACHE, auth_requests, i, token, ops, refresh_window>>
       ELSE \E reads \in DateReads :
              /\ refresh_window' = RefreshWindow(reads[1], reads[2])
              /\ AcquireToken("RECENT_REFRESH", 0, refresh_window', "refresh_delete",
                              "done", 0)
  /\ UNCHANGED <<fixedVars, wh, now, records, exc, result, runs>>
  /\ UNCHANGED schedVars

RefreshDelete ==
  /\ pc = "refresh_delete"
  /\ Delete("RECENT_REFRESH", 0, refresh_window, "refresh_extract")
  /\ UNCHANGED <<fixedVars, refresh_window, TOKEN_CACHE, now, auth_requests, i, token, records, result, runs>>
  /\ UNCHANGED schedVars

RefreshExtract ==
  /\ pc = "refresh_extract"
  /\ Extract("RECENT_REFRESH", 0, filter_field, refresh_window, "refresh_load")
  /\ UNCHANGED <<fixedVars, refresh_window, wh, TOKEN_CACHE, auth_requests, i, token, exc, result, runs>>
  /\ UNCHANGED schedVars

RefreshLoad ==
  /\ pc = "refresh_load"
  /\ Load("RECENT_REFRESH", 0, refresh_window, records, "WRITE_APPEND", "done", 0)
  /\ UNCHANGED <<fixedVars, refresh_window, TOKEN_CACHE, now, auth_requests, token, records, exc, result, runs>>
  /\ UNCHANGED schedVars

\* ---- process_table lines 49-52: the structured result of the job
process_table_result(name, raised, message) ==
  IF raised THEN <<name, FALSE, message>> ELSE <<name, TRUE, "Finalizado">>

ProcessTableReturn ==
  /\ caller = "process_table"
  /\ pc \in {"done", "raised"}
  /\ result' = process_table_result(table_name, pc = "raised", exc)
  /\ pc' = "returned"
  /\ UNCHANGED <<fixedVars, refresh_window, wh, TOKEN_CACHE, now, auth_requests, i, token, records, exc,
                 runs, ops>>
  /\ UNCHANGED schedVars

RunnerNext ==
  \/ StartRun
  \/ FullToken \/ FullExtract \/ FullLoad
  \/ HistToken \/ HistDelete \/ HistExtract \/ HistLoad
  \/ RefreshToken \/ RefreshDelete \/ RefreshExtract \/ RefreshLoad
  \/ ProcessTableReturn

\* ------------------------------------------------------------------------
\* Job Scheduler: run_parallel_etl (src/main.py)
\* ------------------------------------------------------------------------
ALL_TABLES == SubSeq(SERVICE_KEYS, FirstTable, FirstTable + NumTables - 1)
TableSet == {ALL_TABLES[k] : k \in DOMAIN ALL_TABLES}

TRIGGER_MAP ==
  [ ITENS_DOCUMENTOS_FISCAIS_SAIDA |-> "VW_ITENS_SAIDA",
    DOCUMENTOS_FISCAIS_SAIDA |-> "VW_NF_SAIDAS",
    ITENS_DOCUMENTOS_FISCAIS_ENTRADA |-> "VW_ITENS_ENTRADA" ]

\* the keys of TABLES_TO_OPTIMIZE (src/materialize_gold.py)
TABLES_TO_OPTIMIZE == {"VW_ITENS_SAIDA", "VW_NF_SAIDAS", "VW_ITENS_ENTRADA"}

\* view_name.replace("VW_", "T_")
TargetOf(view) ==
  CASE view = "VW_ITENS_SAIDA" -> "T_ITENS_SAIDA"
    [] view = "VW_NF_SAIDAS" -> "T_NF_SAIDAS"
    [] view = "VW_ITENS_ENTRADA" -> "T_ITENS_ENTRADA"

GoldTargets == {TargetOf(v) : v \in TABLES_TO_OPTIMIZE}

Executing == {n \in TableSet : job[n] = "executing"}
Running == {n \in TableSet : silver_status[n] = "running"}

SchedInit ==
  /\ workers \in 1..MaxWorkers
  /\ silver_status = [n \in TableSet |-> "pending"]
  /\ gold_status = [g \in GoldTargets |-> "pending"]
  /\ job = [n \in TableSet |-> "unsubmitted"]
  /\ job_result = [n \in TableSet |-> NoResult]
  /\ next_submit = 1
  /\ pending_queue = <<>>
  /\ waiting = FALSE
  /\ ready_set = {}
  /\ ready_queue = <<>>
  /\ handled = {}
  /\ mpc = "submit"
  /\ cur = NoResult
  /\ mat_calls = [v \in TABLES_TO_OPTIMIZE |-> 0]

\* lines 123-125: executor.submit hands the call to the pool; from here on a worker
\* process may start the job, and end it, before the main thread goes on
Submit ==
  /\ mpc = "submit"
  /\ next_submit <= Len(ALL_TABLES)
  /\ job' = [job EXCEPT ![ALL_TABLES[next_submit]] = "queued"]
  /\ mpc' = "mark"
  /\ UNCHANGED <<workers, silver_status, gold_status, job_result, next_submit, pending_queue,
                 waiting, ready_set, ready_queue, handled, cur, mat_calls>>
  /\ UNCHANGED runnerVars

\* lines 126-127: if i < workers the table just submitted is marked running; the
\* loop goes on to the next table
MarkRunning ==
  /\ mpc = "mark"
  /\ silver_status' = IF next_submit - 1 < workers
                        THEN [silver_status EXCEPT ![ALL_TABLES[next_submit]] = "running"]
                        ELSE silver_status
  /\ next_submit' = next_submit + 1
  /\ mpc' = "submit"
  /\ UNCHANGED <<workers, gold_status, job, job_result, pending_queue, waiting, ready_set,
                 ready_queue, handled, cur, mat_calls>>
  /\ UNCHANGED runnerVars

\* lines 146-148: pending_queue = tables_to_submit[workers:], and as_completed takes
\* the futures already finished as a set and installs its waiter for the others
AsCompleted ==
  /\ mpc = "submit"
  /\ next_submit > Len(ALL_TABLES)
  /\ pending_queue' = SubSeq(ALL_TABLES, workers + 1, Len(ALL_TABLES))
  /\ ready_set' = {n \in TableSet : job[n] = "finished"}
  /\ waiting' = TRUE
  /\ mpc' = "as_completed"
  /\ UNCHANGED <<workers, silver_status, gold_status, job, job_result, next_submit,
                 ready_queue, handled, cur, mat_calls>>
  /\ UNCHANGED runnerVars

\* ProcessPoolExecutor: a free worker process takes the oldest queued call
WorkerStart ==
  /\ Cardinality(Executing) < workers
  /\ \E k \in DOMAIN ALL_TABLES :
       /\ job[ALL_TABLES[k]] = "queued"
       /\ \A j \in 1..(k - 1) : job[ALL_TABLES[j]] \notin {"queued", "unsubmitted"}
       /\ job' = [job EXCEPT ![ALL_TABLES[k]] = "executing"]
  /\ UNCHANGED <<workers, silver_status, gold_status, job_result, next_submit, pending_queue,
                 waiting, ready_set, ready_queue, handled, mpc, cur, mat_calls>>
  /\ UNCHANGED runnerVars

\* a job ends: process_table returns its tuple and the future is finished
WorkerFinish ==
  \E name \in Executing, raised \in BOOLEAN :
    /\ job' = [job EXCEPT ![name] = "finished"]
    /\ job_result' = [job_result EXCEPT
                        ![name] = process_table_result(name, raised, "Exception")]
    /\ ready_queue' = IF waiting THEN Append(ready_queue, name) ELSE ready_queue
    /\ UNCHANGED <<workers, silver_status, gold_status, next_submit, pending_queue, waiting,
                   ready_set, handled, mpc, cur, mat_calls>>
    /\ UNCHANGED runnerVars

\* lines 148-150: as_completed yields a finished future and its table's status is set
HandleResult ==
  /\ mpc = "as_completed"
  /\ \E name \in TableSet :
       /\ IF ready_set # {} THEN name \in ready_set
                            ELSE ready_queue # <<>> /\ name = Head(ready_queue)
       /\ ready_set' = ready_set \ {name}
       /\ ready_queue' = IF ready_set # {} THEN ready_queue ELSE Tail(ready_queue)
       /\ handled' = handled \cup {name}
       /\ cur' = job_result[name]
       /\ silver_status' = [silver_status EXCEPT
                              ![name] = IF job_result[name][2] THEN "success" ELSE "error"]
  /\ mpc' = "pop"
  /\ UNCHANGED <<workers, gold_status, job, job_result, next_submit, pending_queue, waiting,
                 mat_calls>>
  /\ UNCHANGED runnerVars

\* lines 153-155: the next table of the waiting list is marked running
PopPending ==
  /\ mpc = "pop"
  /\ IF pending_queue # <<>>
       THEN /\ silver_status' = [silver_status EXCEPT ![Head(pending_queue)] = "running"]
            /\ pending_queue' = Tail(pending_queue)
       ELSE UNCHANGED <<silver_status, pending_queue>>
  /\ mpc' = "trigger"
  /\ UNCHANGED <<workers, gold_status, job, job_result, next_submit, waiting, ready_set,
                 ready_queue, handled, cur, mat_calls>>
  /\ UNCHANGED runnerVars

\* a trigger that fires on every result of a trigger table, failed ones included
TriggerFiresOnAnyResult(res) == res[1] \in DOMAIN TRIGGER_MAP

\* line 166: if success and res_name in TRIGGER_MAP
TriggerFires(res) == res[2] /\ res[1] \in DOMAIN TRIGGER_MAP

\* a materialization handed over to run beside the loop
AfterTriggerDetached == "as_completed"

\* line 179: materialize_specific_table is called in the loop's own thread, and the
\* loop goes on only when it has returned
AfterTrigger == "materialize"

\* lines 166-170: the trigger of the gold layer
Trigger ==
  /\ mpc = "trigger"
  /\ IF TriggerFires(cur)
       THEN /\ gold_status' = [gold_status EXCEPT ![TargetOf(TRIGGER_MAP[cur[1]])] = "running"]
            /\ mpc' = AfterTrigger
       ELSE /\ mpc' = "as_completed"
            /\ UNCHANGED gold_status
  /\ UNCHANGED <<workers, silver_status, job, job_result, next_submit, pending_queue, waiting,
                 ready_set, ready_queue, handled, cur, mat_calls>>
  /\ UNCHANGED runnerVars

\* lines 179-181: materialize_specific_table runs in the main thread
Materialize ==
  /\ mpc = "materialize"
  /\ \E mat_success \in BOOLEAN :
       gold_status' = [gold_status EXCEPT ![TargetOf(TRIGGER_MAP[cur[1]])] =
                         IF mat_success THEN "success" ELSE "error"]
  /\ mat_calls' = [mat_calls EXCEPT ![TRIGGER_MAP[cur[1]]] = @ + 1]
  /\ mpc' = "as_completed"
  /\ UNCHANGED <<workers, silver_status, job, job_result, next_submit, pending_queue, waiting,
                 ready_set, ready_queue, handled, cur>>
  /\ UNCHANGED runnerVars

\* the for loop over as_completed ends when every future was yielded
Finish ==
  /\ mpc = "as_completed"
  /\ handled = TableSet
  /\ mpc' = "finished"
  /\ UNCHANGED <<workers, silver_status, gold_status, job, job_result, next_submit,
                 pending_queue, waiting, ready_set, ready_queue, handled, cur, mat_calls>>
  /\ UNCHANGED runnerVars

SchedNext ==
  \/ Submit \/ MarkRunning \/ AsCompleted \/ WorkerStart \/ WorkerFinish
  \/ HandleResult \/ PopPending \/ Trigger \/ Materialize \/ Finish

\* ------------------------------------------------------------------------
\* Specifications
\* ------------------------------------------------------------------------
\* the scheduler at rest, while the Service Runner is studied
SchedIdle ==
  /\ workers = 1
  /\ silver_status = [n \in TableSet |-> "pending"]
  /\ gold_status = [g \in GoldTargets |-> "pending"]
  /\ job = [n \in TableSet |-> "unsubmitted"]
  /\ job_result = [n \in TableSet |-> NoResult]
  /\ next_submit = 1
  /\ pending_queue = <<>>
  /\ waiting = FALSE
  /\ ready_set = {}
  /\ ready_queue = <<>>
  /\ handled = {}
  /\ mpc = "idle"
  /\ cur = NoResult
  /\ mat_calls = [v \in TABLES_TO_OPTIMIZE |-> 0]

\* the Service Runner at rest, while the scheduler is studied
RunnerIdle ==
  /\ caller = "process_table"
  /\ table_name = "CAD_LOJAS"
  /\ historical_ranges = NoRanges
  /\ days_refresh = DAYS_FOR_RECENT_REFRESH
  /\ source = <<>>
  /\ client_ok = TRUE
  /\ wh = [n \in RunnerTables |-> EmptyTable]
  /\ TOKEN_CACHE = [access_token |-> None, expires_at |-> 0]
  /\ now = 1
  /\ auth_requests = 0
  /\ pc = "unused"
  /\ i = 0
  /\ token = None
  /\ records = <<>>
  /\ exc = ""
  /\ refresh_window = NoWindow
  /\ result = NoResult
  /\ runs = 0
  /\ run_limit = 0
  /\ ops = <<>>

\* one run of the Service Runner, from every input
Init == RunnerInit /\ SchedIdle
Next == RunnerNext
Spec == Init /\ [][Next]_vars

\* the same backfill run again and again over one range, FASE 2 switched off
InitRerun ==
  /\ SchedIdle
  /\ caller = "run_etl_service"
  /\ table_name = "DOCUMENTOS_FISCAIS_SAIDA"
  /\ historical_ranges = Ranges(get_custom_day_ranges(1, 2, 2))
  /\ days_refresh = 0
  /\ source \in SourceChoices
  /\ client_ok = TRUE
  /\ wh = [n \in RunnerTables |-> IF n = table_name THEN EmptyTable ELSE BagOf(<<2>>)]
  /\ TOKEN_CACHE = [access_token |-> None, expires_at |-> 0]
  /\ now = 1
  /\ auth_requests = 0
  /\ pc = "idle"
  /\ i = 0
  /\ token = None
  /\ records = <<>>
  /\ exc = ""
  /\ refresh_window = NoWindow
  /\ result = NoResult
  /\ runs = 0
  /\ run_limit = MaxRuns
  /\ ops = <<>>

NextRerun ==
  \/ StartRun
  \/ HistToken \/ HistDelete \/ HistExtract \/ HistLoad
  \/ RefreshToken

SpecRerun == InitRerun /\ [][NextRerun]_vars

\* one run of the scheduler
InitSched == SchedInit /\ RunnerIdle
NextSched == SchedNext
SpecSched == InitSched /\ [][NextSched]_vars

\* get_auth_token called again and again in one process while the clock runs
InitToken == RunnerIdle /\ SchedIdle

\* one call of get_auth_token: what it saw, what it returned, what it left
TokenCall ==
  /\ Len(ops) < MaxCalls
  /\ \E resp \in AuthResponses :
       LET r == get_auth_token(TOKEN_CACHE, now, resp, auth_requests + 1)
       IN  /\ token' = r.token
           /\ TOKEN_CACHE' = r.cache
           /\ auth_requests' = IF r.requested THEN auth_requests + 1 ELSE auth_requests
           /\ ops' = Append(ops, [op |-> "get_auth_token", clock |-> now,
                                  before |-> TOKEN_CACHE, resp |-> resp,
                                  requested |-> r.requested,
                                  requests |-> auth_requests' - auth_requests,
                                  returned |-> r.token, after |-> r.cache])
  /\ UNCHANGED <<fixedVars, refresh_window, wh, now, pc, i, records, exc, result, runs>>
  /\ UNCHANGED schedVars

\* datetime.now() moves on between two calls
ClockTick ==
  /\ \E dt \in {1, TOKEN_LIFESPAN_MINUTES - 1} :
       /\ now + dt <= MaxClock
       /\ now' = now + dt
  /\ UNCHANGED <<fixedVars, refresh_window, wh, TOKEN_CACHE, auth_requests, pc, i, token, records, exc,
                 result, runs, ops>>
  /\ UNCHANGED schedVars

NextToken == TokenCall \/ ClockTick
SpecToken == InitToken /\ [][NextToken]_vars

\* the Range Partitioner called once, from a choice of dates around the ends of
\* months (a year's end, a leap and a plain February, a month of 30 days)
WindowAnchors ==
  { DayNumber(2051, 12, 28), DayNumber(2052, 2, 26),
    DayNumber(2053, 2, 25), DayNumber(2053, 4, 27) }
DateChoices == UNION { {a + d : d \in 0..(WindowDays - 1)} : a \in WindowAnchors }
ExampleInputs ==
  { <<DayNumber(2024, 1, 15), DayNumber(2024, 3, 10)>>,
    <<DayNumber(2024, 1, 1), DayNumber(2024, 1, 25)>> }
RangeInputs == (DateChoices \X DateChoices) \cup ExampleInputs
\* the day-by-day policies loop once per day or batch: spans of up to MaxSpanDays
SpanInputs == {in \in RangeInputs : in[2] - in[1] < MaxSpanDays}
BatchChoices == (1..MaxBatch) \cup {10}

InitRanges == RunnerIdle /\ SchedIdle

\* the record of a call: the policy, its arguments, the ranges returned
RangeCall(policy, start_date, end_date, days_in_batch, ranges) ==
  [op |-> policy, start_date |-> start_date, end_date |-> end_date,
   days_in_batch |-> days_in_batch, ranges |-> ranges]

PartitionMonthly ==
  /\ ops = <<>>
  /\ \E in \in RangeInputs :
       LET r == get_monthly_ranges(in[1], in[2])
       IN  /\ ops' = <<RangeCall("get_monthly_ranges", in[1], in[2], 0, r)>>
           /\ historical_ranges' = Ranges(r)
  /\ UNCHANGED <<caller, table_name, days_refresh, refresh_window, source, client_ok, wh, TOKEN_CACHE, now,
                 auth_requests, pc, i, token, records, exc, result, runs, run_limit>>
  /\ UNCHANGED schedVars

PartitionDaily ==
  /\ ops = <<>>
  /\ \E in \in SpanInputs :
       LET r == get_daily_ranges(in[1], in[2])
       IN  /\ ops' = <<RangeCall("get_daily_ranges", in[1], in[2], 1, r)>>
           /\ historical_ranges' = Ranges(r)
  /\ UNCHANGED <<caller, table_name, days_refresh, refresh_window, source, client_ok, wh, TOKEN_CACHE, now,
                 auth_requests, pc, i, token, records, exc, result, runs, run_limit>>
  /\ UNCHANGED schedVars

PartitionCustom ==
  /\ ops = <<>>
  /\ \E in \in SpanInputs, k \in BatchChoices :
       LET r == get_custom_day_ranges(in[1], in[2], k)
       IN  /\ ops' = <<RangeCall("get_custom_day_ranges", in[1], in[2], k, r)>>
           /\ historical_ranges' = Ranges(r)
  /\ UNCHANGED <<caller, table_name, days_refresh, refresh_window, source, client_ok, wh, TOKEN_CACHE, now,
                 auth_requests, pc, i, token, records, exc, result, runs, run_limit>>
  /\ UNCHANGED schedVars

NextRanges == PartitionMonthly \/ PartitionDaily \/ PartitionCustom
SpecRanges == InitRanges /\ [][NextRanges]_vars

\* get_custom_day_ranges takes any integer as days_in_batch
AnyBatchChoices == {-1, 0} \cup BatchChoices

PartitionCustomAnyBatch ==
  /\ ops = <<>>
  /\ \E in \in SpanInputs, k \in AnyBatchChoices :
       LET r == get_custom_day_ranges(in[1], in[2], k)
       IN  /\ ops' = <<RangeCall("get_custom_day_ranges", in[1], in[2], k, r)>>
           /\ historical_ranges' = Ranges(r)
  /\ UNCHANGED <<caller, table_name, days_refresh, refresh_window, source, client_ok, wh, TOKEN_CACHE, now,
                 auth_requests, pc, i, token, records, exc, result, runs, run_limit>>
  /\ UNCHANGED schedVars

NextAnyBatch == PartitionMonthly \/ PartitionDaily \/ PartitionCustomAnyBatch
SpecAnyBatch == InitRanges /\ [][NextAnyBatch]_vars

\* extract_service_data called once against a service that answers page by page
\* from a script: a failed request, or a page of records with its hasNext flag
PageBatches == { <<>>, <<1>>, <<2, 3>> }
PageResponses ==
  { [status |-> "error", registros |-> <<>>, hasNext |-> FALSE] }
    \cup [status : {"ok"}, registros : PageBatches, hasNext : BOOLEAN]

\* a response after which the loop stops
Stops(data) == data.status = "error" \/ data.registros = <<>> \/ ~data.hasNext

\* the scripts: the last page of a script is one that ends the loop
PageScripts ==
  {s \in [1..MaxPages -> PageResponses] : Stops(s[MaxPages])}

InitPages == RunnerIdle /\ SchedIdle

ExtractCall ==
  /\ ops = <<>>
  /\ \E script \in PageScripts :
       LET r == PageLoop(script, 1, <<>>, <<>>)
       IN  /\ records' = r.records
           /\ ops' = << [op |-> "extract_service_data", responses |-> script,
                         requested |-> r.requested, records |-> r.records] >>
  /\ UNCHANGED <<fixedVars, refresh_window, wh, TOKEN_CACHE, now, auth_requests, pc, i, token, exc, result,
                 runs>>
  /\ UNCHANGED schedVars

NextPages == ExtractCall
SpecPages == InitPages /\ [][NextPages]_vars

\* the normalization of a batch in load_to_bigquery (lines 247-254); a batch is a
\* sequence of columns, each a field name as the service spelled it and its values
DATE_COLUMNS ==
  << "DTALTERACAO", "DTNASCIMENTO", "DTCADASTRO", "DTEMISSAO", "DTMOVIMENTO",
     "DTRECEBIMENTO", "DTPAGAMENTO", "DTVENCIMENTO", "DTINICIOTABELA", "DTFIMTABELA" >>

\* the field names of incoming batches, in several letter-casings
FieldNames == {"dtmovimento", "DTMOVIMENTO", "DtMovimento", "idempresa", "IDEMPRESA"}

\* str.lower()
Lower(name) ==
  CASE name \in {"dtmovimento", "DTMOVIMENTO", "DtMovimento"} -> "dtmovimento"
    [] name \in {"idempresa", "IDEMPRESA"} -> "idempresa"
    [] name = "DTALTERACAO" -> "dtalteracao"
    [] name = "DTNASCIMENTO" -> "dtnascimento"
    [] name = "DTCADASTRO" -> "dtcadastro"
    [] name = "DTEMISSAO" -> "dtemissao"
    [] name = "DTRECEBIMENTO" -> "dtrecebimento"
    [] name = "DTPAGAMENTO" -> "dtpagamento"
    [] name = "DTVENCIMENTO" -> "dtvencimento"
    [] name = "DTINICIOTABELA" -> "dtiniciotabela"
    [] name = "DTFIMTABELA" -> "dtfimtabela"

\* cell values: a timestamp as the service writes it, one already in the target
\* format, a text that is no date, and null
CellValues == {"2024-01-05T10:20:30", "2024-01-05 10:20:30", "sem data", "NULL"}

\* pd.to_datetime(errors='coerce').dt.strftime('%Y-%m-%d %H:%M:%S') on one value
Reformat(v) ==
  CASE v \in {"2024-01-05T10:20:30", "2024-01-05 10:20:30"} -> "2024-01-05 10:20:30"
    [] OTHER -> "NULL"

ColumnNames(df) == {df[c].name : c \in DOMAIN df}

\* lines 247-250: for col in DATE_COLUMNS: if col.lower() in df.columns: reformat
NormalizeDates(df) ==
  [c \in DOMAIN df |->
     IF \E d \in DOMAIN DATE_COLUMNS :
          Lower(DATE_COLUMNS[d]) \in ColumnNames(df) /\ df[c].name = Lower(DATE_COLUMNS[d])
       THEN [name |-> df[c].name,
             values |-> [r \in DOMAIN df[c].values |-> Reformat(df[c].values[r])]]
       ELSE df[c]]

\* line 254: df.columns = [col.lower() for col in df.columns]
LowerColumns(df) ==
  [c \in DOMAIN df |-> [name |-> Lower(df[c].name), values |-> df[c].values]]

\* the batch handed to the load job
NormalizedBatch(df) == LowerColumns(NormalizeDates(df))

\* the batches: 1..MaxColumns columns of distinct names, MaxRows rows
Batches ==
  UNION { {df \in [1..n -> [name : FieldNames, values : [1..MaxRows -> CellValues]]] :
             \A a, b \in 1..n : a # b => df[a].name # df[b].name}
          : n \in 1..MaxColumns }

InitLoad == RunnerIdle /\ SchedIdle

NormalizeCall ==
  /\ ops = <<>>
  /\ \E df \in Batches :
       ops' = << [op |-> "load_to_bigquery", df |-> df, loaded |-> NormalizedBatch(df)] >>
  /\ UNCHANGED <<fixedVars, refresh_window, wh, TOKEN_CACHE, now, auth_requests, pc, i, token, records, exc,
                 result, runs>>
  /\ UNCHANGED schedVars

NextLoad == NormalizeCall
SpecLoad == InitLoad /\ [][NextLoad]_vars

\* the gold dataset: every derived table is absent or holds a set of rows
Absent == [exists |-> FALSE, rows |-> {}]
TableOf(rows) == [exists |-> TRUE, rows |-> rows]

\* materialize_specific_table without the DROP statement
materialize_specific_table_without_drop(client, view_name, view_rows, gold, drop_ok, create_ok) ==
  IF ~client THEN
    [ok |-> FALSE, message |-> "no_client", raised |-> FALSE, statements |-> <<>>, gold |-> gold]
  ELSE IF view_name \notin TABLES_TO_OPTIMIZE THEN
    [ok |-> FALSE, message |-> "no_config", raised |-> FALSE, statements |-> <<>>, gold |-> gold]
  ELSE IF ~create_ok \/ gold[TargetOf(view_name)].exists THEN
    [ok |-> FALSE, message |-> "error", raised |-> FALSE,
     statements |-> <<[sql |-> "CREATE", target |-> TargetOf(view_name), ok |-> FALSE]>>,
     gold |-> gold]
  ELSE
    [ok |-> TRUE, message |-> "created", raised |-> FALSE,
     statements |-> <<[sql |-> "CREATE", target |-> TargetOf(view_name), ok |-> TRUE]>>,
     gold |-> [gold EXCEPT ![TargetOf(view_name)] = TableOf(view_rows)]]

\* materialize_specific_table(view_name) on the dataset gold, with the module's
\* bq_client present or not, the rows of the view, and the outcome of each statement;
\* a failed CREATE TABLE ... AS SELECT job writes no table
materialize_specific_table(client, view_name, view_rows, gold, drop_ok, create_ok) ==
  IF ~client THEN
    [ok |-> FALSE, message |-> "no_client", raised |-> FALSE, statements |-> <<>>, gold |-> gold]
  ELSE IF view_name \notin TABLES_TO_OPTIMIZE THEN
    [ok |-> FALSE, message |-> "no_config", raised |-> FALSE, statements |-> <<>>, gold |-> gold]
  ELSE IF ~drop_ok THEN
    [ok |-> FALSE, message |-> "error", raised |-> FALSE,
     statements |-> <<[sql |-> "DROP", target |-> TargetOf(view_name), ok |-> FALSE]>>,
     gold |-> gold]
  ELSE IF ~create_ok THEN
    [ok |-> FALSE, message |-> "error", raised |-> FALSE,
     statements |-> <<[sql |-> "DROP", target |-> TargetOf(view_name), ok |-> TRUE],
                      [sql |-> "CREATE", target |-> TargetOf(view_name), ok |-> FALSE]>>,
     gold |-> [gold EXCEPT ![TargetOf(view_name)] = Absent]]
  ELSE
    [ok |-> TRUE, message |-> "created", raised |-> FALSE,
     statements |-> <<[sql |-> "DROP", target |-> TargetOf(view_name), ok |-> TRUE],
                      [sql |-> "CREATE", target |-> TargetOf(view_name), ok |-> TRUE]>>,
     gold |-> [gold EXCEPT ![TargetOf(view_name)] = TableOf(view_rows)]]

ViewNames == TABLES_TO_OPTIMIZE \cup {"VW_OUTRA"}
ViewRows == SUBSET (1..MaxViewRows)
\* a derived table is absent or holds the copy of an earlier materialization
GoldStates == [GoldTargets -> {Absent, TableOf({1})}]

InitGold == RunnerIdle /\ SchedIdle

MaterializeCall ==
  /\ ops = <<>>
  /\ \E client \in BOOLEAN, view_name \in ViewNames, view_rows \in ViewRows,
        gold \in GoldStates, drop_ok \in BOOLEAN, create_ok \in BOOLEAN :
       ops' = << [op |-> "materialize_specific_table", client |-> client,
                  view_name |-> view_name, view_rows |-> view_rows, before |-> gold,
                  drop_ok |-> drop_ok, create_ok |-> create_ok,
                  ret |-> materialize_specific_table(client, view_name, view_rows, gold,
                                                     drop_ok, create_ok)] >>
  /\ UNCHANGED <<fixedVars, refresh_window, wh, TOKEN_CACHE, now, auth_requests, pc, i, token, records, exc,
                 result, runs>>
  /\ UNCHANGED schedVars

NextGold == MaterializeCall
SpecGold == InitGold /\ [][NextGold]_vars

\* ------------------------------------------------------------------------
\* Properties of the Service Runner
\* ------------------------------------------------------------------------
plan == historical_ranges.ranges

InHist(k) == ops[k].phase = "HISTORICAL_BACKFILL"
InRefresh(k) == ops[k].phase = "RECENT_REFRESH"

\* a delete or load job that reached the warehouse
Issued(k) == ops[k].op \in {"delete", "load"} /\ ops[k].info \in {"ok", "error"}

\* the place of a call within the processing of one range
Rank(op) == CASE op = "token" -> 1 [] op = "delete" -> 2 [] op = "extract" -> 3
              [] op = "load" -> 4

SameStep(k, l) == ops[k].run = ops[l].run /\ ops[k].phase = ops[l].phase /\ ops[k].i = ops[l].i

\* C1: running the HISTORICAL_BACKFILL step of a range twice with the same source
\* data leaves the rows of the range as the first run left them (no duplicated rows),
\* whatever the outcome of the delete that precedes the append.
C1_IdempotentBackfill ==
  \A a, b \in DOMAIN ops :
    ( /\ InHist(a) /\ InHist(b)
      /\ ops[a].op = "load" /\ ops[b].op = "load"
      /\ ops[a].run < ops[b].run
      /\ ops[a].range = ops[b].range
      /\ ops[a].info = "ok" /\ ops[b].info = "ok"
      /\ ops[a].recs = ops[b].recs )
    => RowsIn(ops[b].tbl, ops[b].range[1], ops[b].range[2])
         = RowsIn(ops[a].tbl, ops[a].range[1], ops[a].range[2])

\* C2: through process_table a table with a filter field runs HISTORICAL_BACKFILL
\* and then RECENT_REFRESH and is never loaded by an unfiltered extract; a table
\* without a filter field runs FULL_LOAD once.
C2_ModeSelection ==
  caller = "process_table" =>
    /\ filter_field # "" =>
         /\ pc \in {"done", "returned"} =>
              \E k \in DOMAIN ops : InHist(k) \/ InRefresh(k)
         /\ \A k \in DOMAIN ops :
              /\ ops[k].phase # "FULL_LOAD"
              /\ ops[k].op = "extract" => ops[k].range # NoWindow
    /\ filter_field = "" =>
         /\ \A k \in DOMAIN ops : ops[k].phase = "FULL_LOAD"
         /\ Cardinality({k \in DOMAIN ops : ops[k].op = "extract"}) <= 1

\* C3: inside HISTORICAL_BACKFILL the ranges are processed in plan order, one at a
\* time; within a range the calls are token, delete of exactly that range, extraction
\* filtered by that range, append-load, in this order; the load is always WRITE_APPEND.
\* (A table without a filter field has no delete and its extraction is unfiltered.)
C3_BackfillOrder ==
  \A k \in DOMAIN ops : InHist(k) =>
    /\ ops[k].i \in DOMAIN plan
    /\ ops[k].op \in {"token", "delete", "load"} => ops[k].range = plan[ops[k].i]
    /\ ops[k].op = "extract" =>
         ops[k].range = IF filter_field # "" THEN plan[ops[k].i] ELSE NoWindow
    /\ ops[k].op = "load" => ops[k].mode = "WRITE_APPEND"
    /\ \A l \in DOMAIN ops : (k < l /\ InHist(l) /\ ops[l].run = ops[k].run) =>
         \/ ops[l].i > ops[k].i
         \/ ops[l].i = ops[k].i /\ Rank(ops[l].op) > Rank(ops[k].op)
    /\ ops[k].op = "token" =>
         \/ ops[k].i = 1 /\ (k = 1 \/ ops[k - 1].run < ops[k].run)
         \/ /\ k > 1 /\ InHist(k - 1) /\ ops[k - 1].run = ops[k].run
            /\ ops[k - 1].i = ops[k].i - 1
    /\ ops[k].op = "delete" =>
         /\ filter_field # ""
         /\ k > 1 /\ SameStep(k - 1, k) /\ ops[k - 1].op = "token" /\ ops[k - 1].info # "none"
    /\ ops[k].op = "extract" =>
         /\ k > 1 /\ SameStep(k - 1, k)
         /\ ops[k - 1].op = IF filter_field # "" THEN "delete" ELSE "token"
    /\ ops[k].op = "load" =>
         /\ k > 1 /\ SameStep(k - 1, k) /\ ops[k - 1].op = "extract"
         /\ ops[k].recs = ops[k - 1].recs

C3_Witness ==
  /\ filter_field # ""
  /\ \E k, l \in DOMAIN ops :
       /\ InHist(k) /\ ops[k].op = "load" /\ ops[k].i = 1 /\ ops[k].info = "ok"
       /\ InHist(l) /\ ops[l].op = "load" /\ ops[l].i = 2 /\ ops[l].info = "ok"

\* C4 as stated: a range whose extraction returns zero records issues neither a
\* warehouse delete nor a warehouse load for that range.
C4_ZeroRecordsNoDeleteNoLoad ==
  \A k \in DOMAIN ops :
    (InHist(k) /\ ops[k].op = "extract" /\ ops[k].recs = <<>>) =>
      \A l \in DOMAIN ops : SameStep(k, l) => ~Issued(l)

\* C4 amended: a range whose extraction returns zero records makes no load call; its
\* delete was issued before the extraction (table with a filter field); it is not an
\* error: the run goes on with the next range, or with FASE 2 after the last range.
C4_ZeroRecordsSkipLoad ==
  \A k \in DOMAIN ops :
    (InHist(k) /\ ops[k].op = "extract" /\ ops[k].recs = <<>>) =>
      /\ \A l \in DOMAIN ops : SameStep(k, l) => ops[l].op # "load"
      /\ filter_field # "" =>
           /\ ops[k - 1].op = "delete" /\ SameStep(k - 1, k)
           /\ ops[k - 1].range = plan[ops[k].i]
      /\ (k = Len(ops) /\ ops[k].run = runs) =>
           \/ pc = "hist_load" /\ i = ops[k].i
           \/ pc = "hist_token" /\ i = ops[k].i + 1
           \/ pc \in {"refresh_token", "done", "returned"} /\ ops[k].i = Len(plan)
      /\ (k < Len(ops) /\ ops[k + 1].run = ops[k].run) =>
           /\ ops[k + 1].op = "token"
           /\ \/ InHist(k + 1) /\ ops[k + 1].i = ops[k].i + 1
              \/ InRefresh(k + 1) /\ ops[k].i = Len(plan)

C4_Witness ==
  \E k \in DOMAIN ops :
    /\ InHist(k) /\ ops[k].op = "extract" /\ ops[k].recs = <<>> /\ ops[k].info = "complete"
    /\ ops[k - 1].op = "delete" /\ ops[k - 1].info = "ok"
    /\ k < Len(ops) /\ InHist(k + 1) /\ ops[k + 1].i = ops[k].i + 1

\* the loop of HISTORICAL_BACKFILL has gone through the plan
BackfillOver ==
  /\ ~historical_ranges.none /\ Len(plan) > 0 /\ runs > 0
  /\ pc \notin {"idle", "hist_token", "hist_delete", "hist_extract", "hist_load"}

\* C5: a token failure at range i issues no delete, extraction or load for range i,
\* and every later range is still attempted with a token acquisition of its own.
C5_TokenFailureSkipsOneRange ==
  /\ \A k \in DOMAIN ops :
       (InHist(k) /\ ops[k].op = "token" /\ ops[k].info = "none") =>
         /\ \A l \in DOMAIN ops : (SameStep(k, l) /\ l # k) => FALSE
         /\ (k < Len(ops) /\ ops[k + 1].run = ops[k].run) =>
              /\ ops[k + 1].op = "token"
              /\ \/ InHist(k + 1) /\ ops[k + 1].i = ops[k].i + 1
                 \/ InRefresh(k + 1) /\ ops[k].i = Len(plan)
  /\ BackfillOver =>
       \A j \in DOMAIN plan :
         \E k \in DOMAIN ops :
           InHist(k) /\ ops[k].run = runs /\ ops[k].op = "token" /\ ops[k].i = j

C5_Witness ==
  \E k \in DOMAIN ops :
    /\ InHist(k) /\ ops[k].op = "token" /\ ops[k].info = "none" /\ ops[k].i = 1
    /\ \E l \in DOMAIN ops :
         l > k /\ InHist(l) /\ ops[l].i = 2 /\ ops[l].op = "load" /\ ops[l].info = "ok"

RefreshOpsOfRun == {k \in DOMAIN ops : InRefresh(k) /\ ops[k].run = runs}

\* with N >= 1 a run that went through HISTORICAL_BACKFILL issues exactly one delete
\* in RECENT_REFRESH (it does not when the phase finds no token)
C6_ExactlyOneRefreshDelete ==
  (BackfillOver /\ pc \in {"done", "returned"} /\ days_refresh >= 1 /\ filter_field # "") =>
    Cardinality({k \in RefreshOpsOfRun : ops[k].op = "delete"}) = 1

\* C6: RECENT_REFRESH starts only after every range of HISTORICAL_BACKFILL was
\* processed or skipped, also when ranges failed. With N <= 0 it makes no call.
\* With N >= 1 it acquires a token once (without a token it makes no further call)
\* and then issues exactly one delete over [today-(N-1), today] (exactly N calendar
\* days ending today), then (table with a filter field) exactly one extraction over
\* the same window and one call of the append-load, in that order.
C6_RecentRefresh ==
  /\ \A k \in DOMAIN ops : InRefresh(k) =>
       /\ days_refresh >= 1
       /\ \A l \in DOMAIN ops : (InHist(l) /\ ops[l].run = ops[k].run) => l < k
       /\ \A j \in DOMAIN plan :
            \E l \in 1..(k - 1) :
              InHist(l) /\ ops[l].run = ops[k].run /\ ops[l].op = "token" /\ ops[l].i = j
       /\ \A l \in DOMAIN ops : (k < l /\ InRefresh(l) /\ ops[l].run = ops[k].run) =>
            Rank(ops[l].op) > Rank(ops[k].op)
       /\ ops[k].op \in {"token", "delete", "load"} =>
            /\ ops[k].range = <<Today - (days_refresh - 1), Today>>
            /\ ops[k].range[2] - ops[k].range[1] + 1 = days_refresh
       /\ (ops[k].op = "extract" /\ filter_field # "") =>
            ops[k].range = <<Today - (days_refresh - 1), Today>>
       /\ ops[k].op = "load" => ops[k].mode = "WRITE_APPEND"
       /\ ops[k].op = "delete" =>
            /\ SameStep(k - 1, k) /\ ops[k - 1].op = "token" /\ ops[k - 1].info # "none"
       /\ ops[k].op = "extract" => SameStep(k - 1, k) /\ ops[k - 1].op = "delete"
       /\ ops[k].op = "load" => SameStep(k - 1, k) /\ ops[k - 1].op = "extract"
  /\ (BackfillOver /\ pc \in {"done", "returned"}) =>
       IF days_refresh <= 0 THEN RefreshOpsOfRun = {}
       ELSE \E k \in RefreshOpsOfRun :
              /\ ops[k].op = "token"
              /\ IF ops[k].info = "none"
                   THEN RefreshOpsOfRun = {k}
                   ELSE /\ RefreshOpsOfRun = {k, k + 1, k + 2, k + 3}
                        /\ ops[k + 1].op = "delete"
                        /\ ops[k + 2].op = "extract"
                        /\ ops[k + 3].op = "load"

\* a completed RECENT_REFRESH after a backfill in which ranges failed
C6_Witness ==
  /\ pc = "done" /\ days_refresh >= 1 /\ filter_field # ""
  /\ \E k \in DOMAIN ops : InHist(k) /\ ops[k].op = "token" /\ ops[k].info = "none"
  /\ \E k \in DOMAIN ops : InHist(k) /\ ops[k].op = "load" /\ ops[k].info = "error"
  /\ \E k \in DOMAIN ops :
       /\ InRefresh(k) /\ ops[k].op = "load" /\ ops[k].info = "ok"
       /\ ops[k - 2].op = "delete" /\ ops[k - 2].info = "ok"

\* C7: run_etl_service never raises: whatever the table, the batch plan (an empty one
\* and one for a table without a filter field included) and the outcomes of the
\* external calls, the run ends in DONE and process_table returns a tuple.
C7_RunnerNeverRaises ==
  /\ pc # "raised"
  /\ exc = ""
  /\ pc = "returned" => result[1] = table_name

\* ------------------------------------------------------------------------
\* Properties of the Job Scheduler
\* ------------------------------------------------------------------------
Terminal == {"success", "error"}

\* C8: with worker bound W, at most W tables have status running and at most W jobs
\* execute in worker processes, in every reachable state.
C8_WorkerBound ==
  /\ Cardinality(Running) <= workers
  /\ Cardinality(Executing) <= workers

\* the status changes the scheduler is meant to make
AllowedStep == { <<"pending", "running">>, <<"running", "success">>, <<"running", "error">> }

\* C9: a table's status changes only along pending -> running -> success or error:
\* never to success or error while pending, never to running once terminal, and a
\* terminal status never changes.
C9_StatusTransitions ==
  [][\A n \in TableSet :
       \/ silver_status'[n] = silver_status[n]
       \/ <<silver_status[n], silver_status'[n]>> \in AllowedStep]_vars

\* C10: when every job has ended and the scheduler is through, every table has a
\* terminal status, error for exactly the tables whose job failed; none is left
\* pending or running.
C10_EveryTableTerminal ==
  mpc = "finished" =>
    \A n \in TableSet :
      /\ silver_status[n] \in Terminal
      /\ silver_status[n] = "error" <=> ~job_result[n][2]

\* the tables of the run that trigger a materialization, and the one of a target
TriggerTables == TableSet \cap DOMAIN TRIGGER_MAP
TriggerOf(g) == {n \in TriggerTables : TargetOf(TRIGGER_MAP[n]) = g}
ViewOf(g) == CHOOSE v \in TABLES_TO_OPTIMIZE : TargetOf(v) = g

\* the result of table n was handled as a success: line 150 set its status to success
SetToSuccess(n) == n \in handled /\ job_result[n][2]

\* the materialization of target g is in progress
Materializing(g) == mpc = "materialize" /\ TargetOf(TRIGGER_MAP[cur[1]]) = g

\* C11 (states): a view is materialized at most once, only for a trigger table of the
\* run whose status was set to success before; a table that is no trigger key or that
\* ended in error causes no call and its view stays pending; at the end every trigger
\* table that succeeded has had exactly one materialization.
C11_TriggerStates ==
  /\ \A v \in TABLES_TO_OPTIMIZE : mat_calls[v] <= 1
  /\ \A g \in GoldTargets :
       /\ gold_status[g] = "pending" <=> (mat_calls[ViewOf(g)] = 0 /\ ~Materializing(g))
       /\ gold_status[g] = "running" <=> Materializing(g)
       /\ gold_status[g] \in Terminal <=> mat_calls[ViewOf(g)] = 1
       /\ gold_status[g] # "pending" => \E n \in TriggerOf(g) : SetToSuccess(n)
       /\ (\A n \in TriggerOf(g) : n \in handled /\ ~job_result[n][2]) =>
            gold_status[g] = "pending"
       /\ TriggerOf(g) = {} => gold_status[g] = "pending"
  /\ mpc = "finished" =>
       \A n \in TriggerTables :
         mat_calls[TRIGGER_MAP[n]] = (IF job_result[n][2] THEN 1 ELSE 0)

\* the status changes of a materialized view
GoldStep == { <<"pending", "running">>, <<"running", "success">>, <<"running", "error">> }

\* C11: in one scheduler run a trigger table that reaches success causes exactly one
\* materialization of its mapped view, whose status goes pending -> running ->
\* success or error, after the table's status was set to success; a table that is not
\* a trigger key, or a trigger table that ends in error, causes no materialization and
\* its view's status stays pending.
C11_TriggerChain ==
  /\ []C11_TriggerStates
  /\ [][\A g \in GoldTargets :
          \/ gold_status'[g] = gold_status[g]
          \/ <<gold_status[g], gold_status'[g]>> \in GoldStep]_vars

C11_Witness ==
  /\ mpc = "finished"
  /\ \E n, m \in TriggerTables :
       /\ job_result[n][2] /\ gold_status[TargetOf(TRIGGER_MAP[n])] \in Terminal
       /\ ~job_result[m][2] /\ gold_status[TargetOf(TRIGGER_MAP[m])] = "pending"
  /\ \E n \in TableSet \ TriggerTables : job_result[n][2]

\* C12: materializations are serialized: at every instant at most one view has status
\* running, and it is the one the loop's thread is materializing, also while other
\* trigger tables have ended and wait to be handled.
C12_MaterializationsSerialized ==
  /\ Cardinality({g \in GoldTargets : gold_status[g] = "running"}) <= 1
  /\ \A g \in GoldTargets : gold_status[g] = "running" => Materializing(g)

C12_Witness ==
  /\ mpc = "materialize"
  /\ \E n \in TriggerTables :
       /\ n # cur[1] /\ job[n] = "finished" /\ job_result[n][2] /\ n \notin handled
       /\ gold_status[TargetOf(TRIGGER_MAP[n])] = "pending"

\* ------------------------------------------------------------------------
\* Properties of the Token Cache
\* ------------------------------------------------------------------------
\* C13: get_auth_token issues a request exactly when no token is cached or the clock
\* is not before expires_at; a call while now < expires_at returns the identical cached
\* token, issues no request and leaves the cache alone; a call that needs a token
\* issues exactly one request and, when it succeeds, stores the new token with
\* expires_at = now + TOKEN_LIFESPAN_MINUTES and returns it.
C13_TokenReuseAndRefresh ==
  /\ auth_requests = Cardinality({k \in DOMAIN ops : ops[k].requested})
  /\ \A k \in DOMAIN ops :
       LET c == ops[k]
       IN  /\ c.requested <=>
                (c.before.access_token = None \/ ~(c.clock < c.before.expires_at))
           /\ c.requests = IF c.requested THEN 1 ELSE 0
           /\ ~c.requested =>
                /\ c.returned = c.before.access_token
                /\ c.returned # None
                /\ c.after = c.before
           /\ (c.requested /\ c.resp = "ok") =>
                /\ c.returned # None
                /\ c.returned # c.before.access_token
                /\ c.after = [access_token |-> c.returned,
                              expires_at |-> c.clock + TOKEN_LIFESPAN_MINUTES]

C13_Witness ==
  \E k, l, m \in DOMAIN ops :
    /\ k < l /\ l < m
    /\ ops[k].requested /\ ops[k].resp = "ok"
    /\ ~ops[l].requested /\ ops[l].clock > ops[k].clock /\ ops[l].returned = ops[k].returned
    /\ ops[m].clock = ops[k].after.expires_at
    /\ ops[m].requested /\ ops[m].resp = "ok" /\ ops[m].returned # ops[k].returned

\* C14: when the request fails or the response has no access_token, get_auth_token
\* returns None, both cache fields keep the values they had before the call, and the
\* next call issues a new request.
C14_TokenFailureKeepsCache ==
  \A k \in DOMAIN ops :
    LET c == ops[k]
    IN  (c.requested /\ c.resp \in {"request_error", "no_access_token"}) =>
          /\ c.returned = None
          /\ c.after.access_token = c.before.access_token
          /\ c.after.expires_at = c.before.expires_at
          /\ k < Len(ops) => ops[k + 1].requested /\ ops[k + 1].before = c.before

C14_Witness ==
  \E k \in DOMAIN ops :
    /\ k > 1 /\ k < Len(ops)
    /\ ops[k].requested /\ ops[k].resp = "no_access_token"
    /\ ops[k].before.access_token # None /\ ops[k].after = ops[k].before
    /\ ops[k + 1].requested /\ ops[k + 1].resp = "ok" /\ ops[k + 1].clock > ops[k].clock

\* ------------------------------------------------------------------------
\* Properties of the Range Partitioner
\* ------------------------------------------------------------------------
\* day of the month, and the last day of the month, of day number n
DayOf(n) == n - MonthStart(YearOf(n), MonthOf(n)) + 1
LastDayOfMonth(n) == MonthStart(YearOf(n), MonthOf(n)) + DaysInMonth(YearOf(n), MonthOf(n)) - 1

\* R is ordered ascending, every range has start <= end, consecutive ranges touch
\* without overlap, the first starts at s and the last ends at e
Covers(R, s, e) ==
  IF s > e THEN R = <<>>
  ELSE /\ Len(R) >= 1
       /\ R[1][1] = s
       /\ R[Len(R)][2] = e
       /\ \A j \in DOMAIN R : R[j][1] <= R[j][2]
       /\ \A j \in 1..(Len(R) - 1) :
            /\ R[j + 1][1] = R[j][2] + 1
            /\ R[j][2] < R[j + 1][1]
            /\ R[j][1] < R[j + 1][1]

\* C15: for every start and end and each policy (batch size k >= 1) the ranges
\* returned are ascending, each with start <= end, contiguous and non-overlapping,
\* from start to end: their union is exactly [start, end].
C15_PartitionCoverage ==
  \A c \in DOMAIN ops : Covers(ops[c].ranges, ops[c].start_date, ops[c].end_date)

C15_Witness ==
  /\ Len(ops) = 1
  /\ ops[1].op = "get_custom_day_ranges" /\ ops[1].days_in_batch = 2
  /\ Len(ops[1].ranges) = 3
  /\ ops[1].end_date - ops[1].start_date + 1 = 5

\* C16: for each policy start > end gives the empty sequence, and a span shorter than
\* one unit (same month for monthly, fewer than k days for fixed-size, start = end for
\* daily) gives exactly the one range (start, end).
C16_PartitionEdgeCases ==
  \A c \in DOMAIN ops :
    LET s == ops[c].start_date
        e == ops[c].end_date
        R == ops[c].ranges
        short == CASE ops[c].op = "get_monthly_ranges" ->
                        YearOf(s) = YearOf(e) /\ MonthOf(s) = MonthOf(e)
                   [] ops[c].op = "get_daily_ranges" -> s = e
                   [] ops[c].op = "get_custom_day_ranges" ->
                        e - s + 1 < ops[c].days_in_batch
    IN  /\ s > e => R = <<>>
        /\ (s <= e /\ short) => R = << <<s, e>> >>

C16_Witness ==
  /\ Len(ops) = 1
  /\ \/ /\ ops[1].op = "get_monthly_ranges"
        /\ ops[1].start_date < ops[1].end_date
        /\ MonthOf(ops[1].start_date) = MonthOf(ops[1].end_date)
        /\ YearOf(ops[1].start_date) = YearOf(ops[1].end_date)
        /\ DayOf(ops[1].start_date) > 1
        /\ ops[1].end_date < LastDayOfMonth(ops[1].end_date)
     \/ /\ ops[1].op = "get_daily_ranges"
        /\ ops[1].start_date > ops[1].end_date
  /\ Len(ops[1].ranges) <= 1

\* C17: monthly policy, start <= end: every range lies within one calendar month,
\* every range but the first starts on the first of a month, every range but the last
\* ends on the last day of its month, the last ends at end; (2024-01-15, 2024-03-10)
\* gives (01-15,01-31), (02-01,02-29), (03-01,03-10).
C17_MonthlyShape ==
  \A c \in DOMAIN ops :
    (ops[c].op = "get_monthly_ranges" /\ ops[c].start_date <= ops[c].end_date) =>
      LET R == ops[c].ranges
      IN  /\ Len(R) >= 1
          /\ R[Len(R)][2] = ops[c].end_date
          /\ \A j \in DOMAIN R :
               /\ YearOf(R[j][1]) = YearOf(R[j][2])
               /\ MonthOf(R[j][1]) = MonthOf(R[j][2])
               /\ j > 1 => DayOf(R[j][1]) = 1
               /\ j < Len(R) => R[j][2] = LastDayOfMonth(R[j][1])
          /\ (ops[c].start_date = DayNumber(2024, 1, 15)
                /\ ops[c].end_date = DayNumber(2024, 3, 10)) =>
               R = << <<DayNumber(2024, 1, 15), DayNumber(2024, 1, 31)>>,
                      <<DayNumber(2024, 2, 1), DayNumber(2024, 2, 29)>>,
                      <<DayNumber(2024, 3, 1), DayNumber(2024, 3, 10)>> >>

C17_Witness ==
  /\ Len(ops) = 1
  /\ ops[1].op = "get_monthly_ranges"
  /\ ops[1].start_date = DayNumber(2051, 12, 30)
  /\ ops[1].end_date = DayNumber(2052, 3, 2)
  /\ ops[1].ranges = << <<DayNumber(2051, 12, 30), DayNumber(2051, 12, 31)>>,
                        <<DayNumber(2052, 1, 1), DayNumber(2052, 1, 31)>>,
                        <<DayNumber(2052, 2, 1), DayNumber(2052, 2, 29)>>,
                        <<DayNumber(2052, 3, 1), DayNumber(2052, 3, 2)>> >>

\* C18: fixed-size policy, start <= end, k >= 1: every range but the last spans k
\* days, the last spans 1..k days and ends at end, each range starts the day after the
\* previous one ends; k = 10 on (2024-01-01, 2024-01-25) gives (01-01,01-10),
\* (01-11,01-20), (01-21,01-25). The daily policy returns what fixed-size returns
\* with k = 1.
C18_FixedSizeShape ==
  \A c \in DOMAIN ops :
    LET s == ops[c].start_date
        e == ops[c].end_date
        k == ops[c].days_in_batch
        R == ops[c].ranges
    IN  /\ (ops[c].op = "get_custom_day_ranges" /\ s <= e) =>
             /\ Len(R) >= 1
             /\ R[1][1] = s
             /\ R[Len(R)][2] = e
             /\ \A j \in 1..(Len(R) - 1) :
                  /\ R[j][2] - R[j][1] + 1 = k
                  /\ R[j + 1][1] = R[j][2] + 1
             /\ R[Len(R)][2] - R[Len(R)][1] + 1 \in 1..k
             /\ (k = 10 /\ s = DayNumber(2024, 1, 1) /\ e = DayNumber(2024, 1, 25)) =>
                  R = << <<DayNumber(2024, 1, 1), DayNumber(2024, 1, 10)>>,
                         <<DayNumber(2024, 1, 11), DayNumber(2024, 1, 20)>>,
                         <<DayNumber(2024, 1, 21), DayNumber(2024, 1, 25)>> >>
        /\ ops[c].op = "get_daily_ranges" => R = get_custom_day_ranges(s, e, 1)

C18_Witness ==
  /\ Len(ops) = 1
  /\ ops[1].op = "get_custom_day_ranges" /\ ops[1].days_in_batch = 10
  /\ ops[1].start_date = DayNumber(2024, 1, 1) /\ ops[1].end_date = DayNumber(2024, 1, 25)
  /\ Len(ops[1].ranges) = 3
  /\ ops[1].ranges[3] = <<DayNumber(2024, 1, 21), DayNumber(2024, 1, 25)>>

\* ------------------------------------------------------------------------
\* Properties of the Paged Extractor
\* ------------------------------------------------------------------------
\* the records of pages 1..n of a script, in page order
RECURSIVE ConcatPages(_, _)
ConcatPages(script, n) ==
  IF n = 0 THEN <<>> ELSE ConcatPages(script, n - 1) \o script[n].registros

\* C19: extract_service_data requests pages 1, 2, 3, ... one after the other, each
\* once and none skipped, and stops after the first response with hasNext false or
\* zero records; the result is the concatenation, in page order, of the records of
\* every page received; an empty first page gives an empty result.
C19_PagedExtraction ==
  \A c \in DOMAIN ops :
    LET script == ops[c].responses
        asked == ops[c].requested
        n == Len(asked)
    IN  /\ n >= 1
        /\ \A j \in 1..n : asked[j] = j
        /\ \A j \in 1..(n - 1) : ~Stops(script[j])
        /\ Stops(script[n])
        /\ (\A j \in 1..n : script[j].status = "ok") =>
             /\ script[n].registros = <<>> \/ ~script[n].hasNext
             /\ ops[c].records = ConcatPages(script, n)
        /\ (script[1].status = "ok" /\ script[1].registros = <<>>) =>
             n = 1 /\ ops[c].records = <<>>
        /\ records = ops[c].records

C19_Witness ==
  /\ Len(ops) = 1
  /\ ops[1].requested = <<1, 2, 3>>
  /\ \A j \in 1..3 : ops[1].responses[j].status = "ok"
  /\ ops[1].records = <<1, 2, 3, 1>>

\* C20: if the request for page p fails, no further request is made (page p is not
\* asked again, page p+1 is not asked) and the records of pages 1..p-1 are returned.
C20_ExtractionFailure ==
  \A c \in DOMAIN ops :
    LET script == ops[c].responses
        asked == ops[c].requested
    IN  \A j \in DOMAIN asked :
          script[asked[j]].status = "error" =>
            /\ j = Len(asked)
            /\ \A l \in DOMAIN asked : asked[l] = asked[j] => l = j
            /\ \A l \in DOMAIN asked : asked[l] <= asked[j]
            /\ ops[c].records = ConcatPages(script, asked[j] - 1)
            /\ records = ops[c].records

C20_Witness ==
  /\ Len(ops) = 1
  /\ ops[1].requested = <<1, 2>>
  /\ ops[1].responses[2].status = "error"
  /\ ops[1].responses[3].status = "ok" /\ ops[1].responses[3].registros # <<>>
  /\ ops[1].records = <<2, 3>>

\* ------------------------------------------------------------------------
\* Properties of the Warehouse Loader within a run
\* ------------------------------------------------------------------------
\* the call after call k of HISTORICAL_BACKFILL belongs to the next range, or to
\* RECENT_REFRESH after the last range
RunGoesOnAfter(k) ==
  /\ (k < Len(ops) /\ ops[k + 1].run = ops[k].run) =>
       /\ ops[k + 1].op = "token"
       /\ \/ InHist(k + 1) /\ ops[k + 1].i = ops[k].i + 1
          \/ InRefresh(k + 1) /\ ops[k].i = Len(plan)
  /\ (k = Len(ops) /\ ops[k].run = runs) =>
       \/ pc = "hist_token" /\ i = ops[k].i + 1
       \/ pc \in {"refresh_token", "done", "returned"} /\ ops[k].i = Len(plan)

\* C21: load_to_bigquery on an empty batch issues no warehouse call and leaves the
\* table as it is; a failed load leaves the table as it is, is not retried, does not
\* raise, and the remaining ranges of HISTORICAL_BACKFILL and RECENT_REFRESH are
\* still processed.
C21_LoaderIsolation ==
  /\ \A k \in DOMAIN ops : ops[k].op = "load" =>
       /\ k > 1 /\ ops[k - 1].run = ops[k].run /\ ops[k - 1].op = "extract"
       /\ ops[k].recs = <<>> => (ops[k].info = "noop" /\ ops[k].tbl = ops[k - 1].tbl)
       /\ ops[k].info = "error" => ops[k].tbl = ops[k - 1].tbl
       /\ \A l \in DOMAIN ops : (l # k /\ ops[l].op = "load") => ~SameStep(k, l)
       /\ (k = Len(ops) /\ ops[k].run = runs) => (pc # "raised" /\ exc = "")
       /\ InHist(k) => RunGoesOnAfter(k)
  /\ BackfillOver =>
       \A j \in DOMAIN plan :
         \E k \in DOMAIN ops :
           InHist(k) /\ ops[k].run = runs /\ ops[k].op = "token" /\ ops[k].i = j

C21_Witness ==
  \E k, l, m, n \in DOMAIN ops :
    /\ InHist(k) /\ ops[k].op = "load" /\ ops[k].i = 1 /\ ops[k].info = "error"
    /\ InHist(l) /\ ops[l].op = "load" /\ ops[l].i = 2 /\ ops[l].info = "ok"
    /\ InRefresh(m) /\ ops[m].op = "extract" /\ ops[m].recs = <<>>
    /\ InRefresh(n) /\ ops[n].op = "load" /\ ops[n].info = "noop" /\ client_ok

\* the lower-cased names of the recognized date columns
DateColumnNames == {Lower(DATE_COLUMNS[d]) : d \in DOMAIN DATE_COLUMNS}

\* C22: for every non-empty batch and every letter-casing of the incoming field names
\* the loaded batch has all column names lower-cased, and every column whose name is
\* a recognized date column has each value in the form YYYY-MM-DD HH:MM:SS, or null
\* where the value is no date.
C22_LoaderNormalization ==
  \A k \in DOMAIN ops :
    LET df == ops[k].df
        out == ops[k].loaded
    IN  /\ DOMAIN out = DOMAIN df
        /\ \A c \in DOMAIN out :
             /\ out[c].name = Lower(df[c].name)
             /\ out[c].name \in DateColumnNames =>
                  \A r \in DOMAIN out[c].values :
                    out[c].values[r] = Reformat(df[c].values[r])
             /\ out[c].name \notin DateColumnNames => out[c].values = df[c].values

\* the statements issued by a call, as the sequence of their SQL verbs
Verbs(stmts) == [s \in DOMAIN stmts |-> stmts[s].sql]

\* C23: materialize_specific_table issues DROP TABLE IF EXISTS before CREATE TABLE AS
\* SELECT, never raises, and returns True only if both statements succeeded; a failed
\* drop or create returns False; after a failed create the derived table is absent,
\* after success it is a full copy of the view; no other derived table is touched.
C23_MaterializeAllOrNothing ==
  \A k \in DOMAIN ops :
    LET c == ops[k]
        r == c.ret
        configured == c.client /\ c.view_name \in TABLES_TO_OPTIMIZE
    IN  /\ ~r.raised
        /\ Verbs(r.statements) \in {<<>>, <<"DROP">>, <<"DROP", "CREATE">>}
        /\ r.ok <=> (Verbs(r.statements) = <<"DROP", "CREATE">>
                       /\ \A s \in DOMAIN r.statements : r.statements[s].ok)
        /\ ~configured => r.statements = <<>> /\ r.gold = c.before
        /\ configured =>
             LET g == TargetOf(c.view_name)
             IN  /\ r.statements # <<>>
                 /\ \A s \in DOMAIN r.statements : r.statements[s].target = g
                 /\ \A h \in GoldTargets \ {g} : r.gold[h] = c.before[h]
                 /\ (~c.drop_ok) => ~r.ok /\ r.gold[g] = c.before[g]
                 /\ (c.drop_ok /\ ~c.create_ok) => ~r.ok /\ r.gold[g] = Absent
                 /\ r.ok => r.gold[g] = TableOf(c.view_rows)

\* a call on an existing derived table whose create fails after the drop went through
C23_Witness ==
  \E k \in DOMAIN ops :
    /\ ops[k].client /\ ops[k].view_name = "VW_NF_SAIDAS"
    /\ ops[k].before["T_NF_SAIDAS"].exists
    /\ ops[k].drop_ok /\ ~ops[k].create_ok
    /\ ~ops[k].ret.ok
    /\ Verbs(ops[k].ret.statements) = <<"DROP", "CREATE">>

\* ------------------------------------------------------------------------
\* Properties of a run as a whole
\* ------------------------------------------------------------------------
\* a failure the run absorbed: no token, or a delete or load job that failed
Absorbed(k) ==
  \/ ops[k].op = "token" /\ ops[k].info = "none"
  \/ ops[k].op \in {"delete", "load"} /\ ops[k].info = "error"

\* C24: a job is reported to the scheduler as success only if its run completed
\* without an absorbed failure: a run aborted for lack of a token, or with a failed
\* delete or load, is reported as error.
C24_ReportedOutcome ==
  (pc = "returned" /\ result[2]) =>
    \A k \in DOMAIN ops : ops[k].run = runs => ~Absorbed(k)

\* the table as it was when the step of call k began (its token acquisition)
BeforeStep(k) ==
  ops[CHOOSE t \in DOMAIN ops : SameStep(t, k) /\ ops[t].op = "token"].tbl

\* C26: in HISTORICAL_BACKFILL and RECENT_REFRESH, when the extraction of a range
\* fails the rows the table held for that range are retained: from the failed
\* extraction on, the range never has fewer rows than before its step.
C26_NoLossOnFailedExtraction ==
  \A k \in DOMAIN ops :
    ( /\ InHist(k) \/ InRefresh(k)
      /\ ops[k].op = "extract" /\ ops[k].info = "failed"
      /\ ops[k].range # NoWindow )
    => \A l \in k..Len(ops) :
         SameStep(k, l) =>
           \A d \in DayDomain :
             (ops[k].range[1] <= d /\ d <= ops[k].range[2]) =>
               ops[l].tbl[d] >= BeforeStep(k)[d]

\* C27: FULL_LOAD issues the replace-all load only with the complete set of source
\* records; after a page failure the table is not replaced by the partial set, and
\* after a token failure or an extraction of zero records the table is unchanged.
C27_FullLoadOnlyComplete ==
  \A k \in DOMAIN ops :
    ops[k].phase = "FULL_LOAD" =>
      /\ (ops[k].op = "load" /\ Issued(k)) =>
           /\ ops[k - 1].op = "extract" /\ ops[k - 1].info = "complete"
           /\ ops[k].recs = source
      /\ (ops[k].op = "extract" /\ ops[k].info = "failed") =>
           \A l \in k..Len(ops) : ops[l].run = ops[k].run => ops[l].tbl = ops[k].tbl
      /\ (ops[k].op = "token" /\ ops[k].info = "none") =>
           \A l \in k..Len(ops) : ops[l].run = ops[k].run => l = k
      /\ (ops[k].op = "extract" /\ ops[k].recs = <<>>) =>
           \A l \in k..Len(ops) : ops[l].run = ops[k].run => ops[l].tbl = ops[k].tbl

\* the days outside the window of call k
Outside(k, d) ==
  ops[k].range = NoWindow \/ d < ops[k].range[1] \/ d > ops[k].range[2]

\* the records the source returned for the step of call k lie inside its window
InWindowOnly(k) == \A r \in DOMAIN ops[k].recs : ~Outside(k, ops[k].recs[r])

\* the table before call k: as the call before it left it
Previous(k) == ops[k - 1].tbl

\* the calls of range steps keep the rows outside their window
FrameOfCalls ==
  /\ ops # <<>> => wh[table_name] = ops[Len(ops)].tbl
  /\ \A k \in DOMAIN ops :
       (k > 1 /\ (InHist(k) \/ InRefresh(k))) =>
         /\ ops[k].op \in {"token", "extract"} => ops[k].tbl = Previous(k)
         /\ ops[k].op \in {"delete", "load"} =>
              /\ ops[k].range # NoWindow
              /\ InWindowOnly(k) =>
                   \A d \in DayDomain : Outside(k, d) => ops[k].tbl[d] = Previous(k)[d]
              /\ filter_field # "" => InWindowOnly(k)

\* the tables other than the one of the run
OtherTablesKept == \A n \in DOMAIN wh : n # table_name => wh'[n] = wh[n]

\* C28: processing a range [s,e] of HISTORICAL_BACKFILL, or the RECENT_REFRESH
\* window, changes only rows of the run's table whose date lies in [s,e]: rows with
\* dates outside [s,e] and all other tables are unchanged (the source returns only
\* records inside the requested window).
C28_RangeStepFrame == []FrameOfCalls /\ [][OtherTablesKept]_vars

\* a delete that removed the rows of its range from a table that also holds rows
\* outside the range, followed by the load of the range's records
C28_Witness ==
  \E k \in DOMAIN ops :
    /\ k > 2 /\ InHist(k) /\ SameStep(k - 2, k)
    /\ ops[k].op = "load" /\ ops[k].info = "ok" /\ ops[k].recs # <<>>
    /\ ops[k - 2].op = "delete" /\ ops[k - 2].info = "ok"
    /\ ops[k - 2].tbl # ops[k - 3].tbl
    /\ \E d \in DayDomain : Outside(k, d) /\ ops[k].tbl[d] > 0
    /\ \E d \in DayDomain : ~Outside(k, d) /\ ops[k].tbl[d] > 0
    /\ \E n \in DOMAIN wh : n # table_name /\ wh[n] # EmptyTable

\* a table shown as pending has not started executing in any worker
PendingNotStarted ==
  \A n \in TableSet : silver_status[n] = "pending" => job[n] \in {"unsubmitted", "queued"}

\* C25: at every instant of run_parallel_etl a table shown as pending has not started
\* executing in any worker, and a table shown as running has not yet finished (it is
\* executing in a worker, or about to be picked up by one).
C25_StatusAgreesWithPool ==
  /\ PendingNotStarted
  /\ \A n \in TableSet : silver_status[n] = "running" => job[n] \in {"queued", "executing"}

\* C29: for every start and end and every integer batch size, get_custom_day_ranges
\* makes progress on every loop iteration (each range starts strictly later than the
\* one before) and terminates (the loop is left because the next start lies after the
\* end date); get_monthly_ranges and get_daily_ranges terminate likewise.
C29_PartitionerTermination ==
  \A k \in DOMAIN ops :
    LET r == ops[k].ranges
    IN  /\ \A j \in 1..(Len(r) - 1) : r[j + 1][1] > r[j][1]
        /\ r # <<>> => r[Len(r)][2] + 1 > ops[k].end_date

=============================================================================
